---- MODULE Spec2Model ----
(***************************************************************************)
(* The crawl orchestration of scraper.py: the quota allocation of the main *)
(* script, the pool of scrape workers (get_urls, then write_articles) over *)
(* the selected categories, the join on their results and the merge of the *)
(* per-category sink files into the final corpus.                          *)
(***************************************************************************)
EXTENDS Integers, Sequences, FiniteSets, TLC

\* ------------------------------------------------------------------ bounds

\* Listing pages of the site, summed over the selected categories.
MaxPages == 3
\* Article links on those listing pages, summed over the pages.
MaxLinks == 2
\* Largest per-category count asked for directly (--no_of_articles).
MaxDirect == 2
\* Worker processes of the pool (multiprocessing.Pool() takes the cpu count).
PoolSize == 2

\* ------------------------------------------------------- program constants

\* scraper.py:380, the size of the MOST_POPULAR feed subtracted before spreading.
MostPopularReserve == 10

MOST_POPULAR == "MOST_POPULAR"

\* config.yml CATEGORY_URLS: the category names, in the order of the mapping.
CATEGORY_URLS == <<MOST_POPULAR, "WORLD", "SPORT">>

ALL_CATEGORIES == {CATEGORY_URLS[i] : i \in DOMAIN CATEGORY_URLS}

\* The article URLs the site can link to.
Urls == {"A", "B"}

\* --no_of_articles: -1 (everything), small counts, and the first count above
\* the MOST_POPULAR reserve.
Totals == {-1} \cup (1..MaxDirect) \cup {MostPopularReserve + 1}

NoQuota == "unset"

VARIABLES
    no_of_articles,         \* params.no_of_articles
    spread,                 \* params.spread
    categories,             \* the selected categories, in dict order
    pc,                     \* position of the main script, or the exception that ended it
    articles_per_category,  \* the quota handed to every scrape call
    joined,                 \* how many p.get() calls have returned
    category_file_names,    \* what glob.glob returned, in its order
    corpora,                \* the rows written to the final corpus
    wpc,                    \* per category: position of its scrape task
    category_urls,          \* per category: get_urls' accumulated list
    total_page_count,       \* per category: get_page_count of page 1
    count,                  \* per category: loop variable of the page loop
    served,                 \* per category: the listing responses, in order
    idx,                    \* per category: position in write_articles' urls
    story_num,              \* per category: rows written by write_articles
    extracted,              \* per category: get_article_data calls, in order
    sink_files,             \* the names whose sink file exists in the output directory
    sink,                   \* per category name: the rows of its sink file
    output_file_name,       \* per category: the path write_articles opened
    page_soup,              \* get_article_data: the article page fetched
    article_data,           \* get_article_data: the tuple returned
    article_pc,             \* position of the single-article path of write_articles
    article_rows,           \* the rows that path wrote
    article_story_num,      \* its story_num
    topic_pc,               \* position of the category resolution for "all"
    article_urls,           \* get_topics: the article urls of the homepage
    topic_idx,              \* get_topics: position in article_urls
    topic_fetched,          \* get_topics: the page fetches made, in order
    topics,                 \* get_topics: the dict being built
    categories_dict,        \* the main script's categories dict, name -> url
    href,                   \* _is_valid_url_sw: its argument
    is_valid                \* _is_valid_url_sw: what it returned

vars == <<no_of_articles, spread, categories, pc, articles_per_category, joined,
          category_file_names, corpora, wpc, category_urls, total_page_count,
          count, served, idx, story_num, extracted, sink_files, sink,
          output_file_name, page_soup, article_data, article_pc, article_rows,
          article_story_num, topic_pc, article_urls, topic_idx, topic_fetched,
          topics, categories_dict, href, is_valid>>

mainVars == <<pc, articles_per_category, joined, category_file_names, corpora>>
paramVars == <<no_of_articles, spread, categories>>
urlVars == <<category_urls, total_page_count, count, served>>
writeVars == <<idx, story_num, extracted, sink_files, sink, output_file_name>>
articleVars == <<page_soup, article_data, article_pc, article_rows, article_story_num>>
topicVars == <<topic_pc, article_urls, topic_idx, topic_fetched, topics, categories_dict>>
validVars == <<href, is_valid>>
unitVars == <<articleVars, topicVars, validVars>>

\* ----------------------------------------------------------------- helpers

Range(s) == {s[i] : i \in DOMAIN s}

NoDup(s) == \A i, j \in DOMAIN s : i # j => s[i] # s[j]

\* Injective sequences over S: the orders a set can be listed in.
Perms(S) == {s \in [1..Cardinality(S) -> S] : Range(s) = S}

\* The sequence s restricted to the elements of S, in s's order.
RECURSIVE Restrict(_, _)
Restrict(s, S) ==
    IF s = <<>> THEN <<>>
    ELSE IF Head(s) \in S THEN <<Head(s)>> \o Restrict(Tail(s), S)
         ELSE Restrict(Tail(s), S)

\* Non-empty selections of categories, in the order the dict holds them.
Selections == {Restrict(CATEGORY_URLS, S) : S \in (SUBSET ALL_CATEGORIES) \ {{}}}

Row(u, c) == [url |-> u, category |-> c]

RECURSIVE Concat(_, _)
\* pd.concat over the frames read from the files named in order.
Concat(files, names) ==
    IF names = <<>> THEN <<>>
    ELSE files[Head(names)] \o Concat(files, Tail(names))

RECURSIVE DropDuplicatesKeepFirst(_)
\* Variant: drop_duplicates with keep="first".
DropDuplicatesKeepFirst(rows) ==
    IF rows = <<>> THEN <<>>
    ELSE LET n == Len(rows)
             front == SubSeq(rows, 1, n - 1)
         IN IF \E j \in DOMAIN front : front[j].url = rows[n].url
            THEN DropDuplicatesKeepFirst(front)
            ELSE DropDuplicatesKeepFirst(front) \o <<rows[n]>>

\* Variant: drop_duplicates with keep=False, every repeated url dropped.
DropDuplicatesKeepNone(rows) ==
    LET kept == {i \in DOMAIN rows :
                    \A j \in DOMAIN rows : j # i => rows[j].url # rows[i].url}
        F[i \in 0..Len(rows)] ==
            IF i = 0 THEN <<>>
            ELSE IF i \in kept THEN Append(F[i - 1], rows[i]) ELSE F[i - 1]
    IN F[Len(rows)]

RECURSIVE DropDuplicatesKeepLast(_)
\* DataFrame.drop_duplicates(subset="url", keep="last")
DropDuplicatesKeepLast(rows) ==
    IF rows = <<>> THEN <<>>
    ELSE LET rest == Tail(rows)
         IN IF \E j \in DOMAIN rest : rest[j].url = Head(rows).url
            THEN DropDuplicatesKeepLast(rest)
            ELSE <<Head(rows)>> \o DropDuplicatesKeepLast(rest)

RECURSIVE LinksIn(_)
LinksIn(resp) ==
    IF resp = <<>> THEN 0
    ELSE Cardinality(Head(resp).links) + LinksIn(Tail(resp))

RECURSIVE SumOver(_, _)
SumOver(f, S) ==
    IF S = {} THEN 0
    ELSE LET x == CHOOSE y \in S : TRUE
         IN f[x] + SumOver(f, S \ {x})

\* Links served so far in the run, over all categories.
LinksServed == SumOver([c \in ALL_CATEGORIES |-> LinksIn(served[c])], ALL_CATEGORIES)

\* ---------------------------------------------------------------- the site

\* Listing pages the site is known to hold so far: the page count a category's
\* first page reported, and one page for a category not fetched yet.
PagesKnown ==
    SumOver([c \in ALL_CATEGORIES |->
                IF c \notin Range(categories) THEN 0
                ELSE IF served[c] = <<>> THEN 1 ELSE total_page_count[c]],
            ALL_CATEGORIES)

\* The page counts the first listing page of c can report. MOST_POPULAR is a
\* single page (scraper.py:378).
PageCounts(c) ==
    IF c = MOST_POPULAR THEN {1}
    ELSE {p \in 1..MaxPages : PagesKnown - 1 + p <= MaxPages}

\* What get_page_soup returns for a listing page: the response parsed, whatever
\* its HTTP status (requests.get raises only on a transport failure, and
\* nothing looks at response.status_code). An error page holds no article
\* link and no pagination control.
ListingResponses(c, page) ==
    {[page |-> page, status |-> "ok", links |-> L, pages |-> p] :
        L \in {K \in SUBSET Urls : LinksServed + Cardinality(K) <= MaxLinks},
        p \in IF page = 1 THEN PageCounts(c) ELSE {total_page_count[c]}}
    \cup {[page |-> page, status |-> "error", links |-> {}, pages |-> 1]}

\* get_valid_urls: the valid article urls of the page, as list(set(...)), so
\* without repetition and in no particular order.
get_valid_urls(resp) == Perms(resp.links)

\* get_page_count: the page count the pagination control shows, 1 without one.
get_page_count(resp) == resp.pages

\* What get_article_data returns for one url: a body ("body"), or no
\* paragraphs / an article at or before the cutoff date ("skip").
ArticleOutcomes == {"body", "skip"}

\* ------------------------------------------------------------------- Init

\* The category names an earlier run may have left a sink file for.
StaleSinks == {{}, {"SPORT"}}

\* The single-article path, the category resolution and the url predicate at
\* rest: the values their variables keep while another part runs.
ArticleIdle ==
    /\ page_soup = [time |-> <<>>, headline |-> <<>>, story_div |-> <<>>]
    /\ article_data = [headline |-> <<>>, text |-> <<>>]
    /\ article_pc = "idle"
    /\ article_rows = <<>>
    /\ article_story_num = 0

TopicsIdle ==
    /\ topic_pc = "idle"
    /\ article_urls = <<>>
    /\ topic_idx = 0
    /\ topic_fetched = <<>>
    /\ topics = <<>>
    /\ categories_dict = <<>>

ValidIdle ==
    /\ href = <<>>
    /\ is_valid = "unset"

\* The main script and its tasks at rest.
MainIdle ==
    /\ no_of_articles = -1
    /\ spread = FALSE
    /\ categories = <<>>
    /\ pc = "idle"
    /\ articles_per_category = NoQuota
    /\ joined = 0
    /\ category_file_names = <<>>
    /\ corpora = <<>>
    /\ wpc = [c \in ALL_CATEGORIES |-> "idle"]
    /\ category_urls = [c \in ALL_CATEGORIES |-> <<>>]
    /\ total_page_count = [c \in ALL_CATEGORIES |-> 0]
    /\ count = [c \in ALL_CATEGORIES |-> 0]
    /\ served = [c \in ALL_CATEGORIES |-> <<>>]
    /\ idx = [c \in ALL_CATEGORIES |-> 0]
    /\ story_num = [c \in ALL_CATEGORIES |-> 0]
    /\ extracted = [c \in ALL_CATEGORIES |-> <<>>]
    /\ sink_files = {}
    /\ sink = [c \in ALL_CATEGORIES |-> <<>>]
    /\ output_file_name = [c \in ALL_CATEGORIES |-> <<>>]

Init ==
    /\ no_of_articles \in Totals
    /\ spread \in BOOLEAN
    /\ categories \in Selections
    /\ pc = "quota"
    /\ articles_per_category = NoQuota
    /\ joined = 0
    /\ category_file_names = <<>>
    /\ corpora = <<>>
    /\ wpc = [c \in ALL_CATEGORIES |-> "idle"]
    /\ category_urls = [c \in ALL_CATEGORIES |-> <<>>]
    /\ total_page_count = [c \in ALL_CATEGORIES |-> 0]
    /\ count = [c \in ALL_CATEGORIES |-> 0]
    /\ served = [c \in ALL_CATEGORIES |-> <<>>]
    /\ idx = [c \in ALL_CATEGORIES |-> 0]
    /\ story_num = [c \in ALL_CATEGORIES |-> 0]
    /\ extracted = [c \in ALL_CATEGORIES |-> <<>>]
    \* the output directory may hold a sink file an earlier run left behind
    /\ sink_files \in StaleSinks
    /\ sink = [c \in ALL_CATEGORIES |->
                 IF c \in sink_files THEN <<Row("A", c)>> ELSE <<>>]
    /\ output_file_name = [c \in ALL_CATEGORIES |-> <<>>]
    /\ ArticleIdle
    /\ TopicsIdle
    /\ ValidIdle


\* ------------------------------------------------------- quota allocation

\* The divisor of the spread: the categories other than MOST_POPULAR when it
\* is selected, every selected category otherwise.
SpreadDivisor(cats) ==
    IF MOST_POPULAR \in Range(cats) THEN Len(cats) - 1 ELSE Len(cats)

\* Python's // raises ZeroDivisionError on a zero divisor.
RaisesZeroDivision(n, sp, cats) == n > 0 /\ sp /\ SpreadDivisor(cats) = 0

\* What the main script computes for articles_per_category. Python's // is
\* the floor division, as \div is.
SpreadQuota(n, sp, cats) ==
    IF n > 0 /\ sp
    THEN IF MOST_POPULAR \in Range(cats)
         THEN (n - MostPopularReserve) \div SpreadDivisor(cats)
         ELSE n \div SpreadDivisor(cats)
    ELSE n

ComputeQuota ==
    /\ pc = "quota"
    /\ IF RaisesZeroDivision(no_of_articles, spread, categories)
       THEN pc' = "ZeroDivisionError" /\ UNCHANGED articles_per_category
       ELSE /\ pc' = "pool"
            /\ articles_per_category' = SpreadQuota(no_of_articles, spread, categories)
    /\ UNCHANGED <<joined, category_file_names, corpora, wpc>>
    /\ UNCHANGED <<paramVars, unitVars, urlVars, writeVars>>

\* pool.apply_async(scrape, ...) for every selected category.
ApplyAsync ==
    /\ pc = "pool"
    /\ pc' = "get"
    /\ wpc' = [c \in ALL_CATEGORIES |->
                 IF c \in Range(categories) THEN "queued" ELSE "idle"]
    /\ UNCHANGED <<articles_per_category, joined, category_file_names, corpora>>
    /\ UNCHANGED <<paramVars, unitVars, urlVars, writeVars>>

\* ----------------------------------------------------------- scrape tasks

Running == {c \in ALL_CATEGORIES :
              wpc[c] \in {"get_urls", "page_loop", "write_articles", "url_loop"}}

\* Variant: a get that returns without waiting for the task to end.
FinishedNoWait(c) == wpc[c] # "idle"

\* AsyncResult.get returns or raises once the task has ended.
Finished(c) == wpc[c] \in {"done", "failed"}

\* The pool's processes are daemons: they end when the main script ends with
\* an exception.
PoolAlive == pc # "task_exception"

\* A pool process takes the next task of the queue, in submission order.
Scrape(c) ==
    /\ PoolAlive
    /\ wpc[c] = "queued"
    /\ Cardinality(Running) < PoolSize
    /\ \A i, j \in DOMAIN categories :
          (categories[j] = c /\ i < j) => wpc[categories[i]] # "queued"
    /\ wpc' = [wpc EXCEPT ![c] = "get_urls"]
    /\ UNCHANGED <<mainVars, paramVars, unitVars, urlVars, writeVars>>

\* Variant: the test made with > in place of >=.
QuotaReachedStrict(urls) ==
    articles_per_category > 0 /\ Len(urls) > articles_per_category

\* Variant: the test left out, every page fetched whatever the quota.
QuotaReachedNever(urls) == FALSE

\* get_urls' test before the page loop and at the end of each iteration.
QuotaReached(urls) ==
    articles_per_category > 0 /\ Len(urls) >= articles_per_category

\* get_urls up to the page loop: page 1, its urls, the page count.
GetUrlsFirstPage(c) ==
    /\ PoolAlive
    /\ wpc[c] = "get_urls"
    /\ \E resp \in ListingResponses(c, 1) : \E urls \in get_valid_urls(resp) :
          /\ served' = [served EXCEPT ![c] = Append(@, resp)]
          /\ category_urls' = [category_urls EXCEPT ![c] = urls]
          /\ total_page_count' = [total_page_count EXCEPT ![c] = get_page_count(resp)]
          /\ IF get_page_count(resp) > 1 /\ ~QuotaReached(urls)
             THEN /\ wpc' = [wpc EXCEPT ![c] = "page_loop"]
                  /\ count' = [count EXCEPT ![c] = 1]
             ELSE /\ wpc' = [wpc EXCEPT ![c] = "write_articles"]
                  /\ UNCHANGED count
    /\ UNCHANGED <<mainVars, paramVars, unitVars, writeVars>>

\* Variant: the loop written over range(1, total_page_count - 1).
PageRangeShort(c) == count[c] + 1 >= total_page_count[c] - 1

\* range(1, total_page_count) is exhausted after the iteration of c's loop
\* variable count.
PageRangeExhausted(c) == count[c] + 1 >= total_page_count[c]

\* One iteration of `for count in range(1, total_page_count)`.
GetUrlsNextPage(c) ==
    /\ PoolAlive
    /\ wpc[c] = "page_loop"
    /\ \E resp \in ListingResponses(c, count[c] + 1) :
       \E page_urls \in get_valid_urls(resp) :
          LET urls == category_urls[c] \o page_urls
          IN /\ served' = [served EXCEPT ![c] = Append(@, resp)]
             /\ category_urls' = [category_urls EXCEPT ![c] = urls]
             /\ IF QuotaReached(urls) \/ PageRangeExhausted(c)
                THEN /\ wpc' = [wpc EXCEPT ![c] = "write_articles"]
                     /\ UNCHANGED count
                ELSE /\ count' = [count EXCEPT ![c] = @ + 1]
                     /\ UNCHANGED wpc
    /\ UNCHANGED <<mainVars, paramVars, unitVars, writeVars, total_page_count>>

\* requests.get raises on a transport failure; nothing catches it in get_urls
\* or scrape, so the task ends with the exception.
GetUrlsFetchRaises(c) ==
    /\ PoolAlive
    /\ wpc[c] \in {"get_urls", "page_loop"}
    /\ wpc' = [wpc EXCEPT ![c] = "failed"]
    /\ UNCHANGED <<mainVars, paramVars, unitVars, urlVars, writeVars>>

\* write_articles up to its loop: the sink opened with "w", the header written.
\* params.output_file_name, as its path components and separators.
OutputFileName == <<"data", "/", "corpus.csv">>

RECURSIVE Split(_)
\* str.split("/"): the pieces between the separators.
Split(s) ==
    IF s = <<>> THEN << <<>> >>
    ELSE LET rest == Split(Tail(s))
         IN  IF Head(s) = "/" THEN << <<>> >> \o rest
             ELSE << <<Head(s)>> \o rest[1] >> \o Tail(rest)

\* Variant: the sink named without the category.
SinkFileNameShared(category) ==
    LET path == Split(OutputFileName)
    IN  path[1] \o <<"/">> \o <<"_">> \o path[2]

\* os.path.join(path[0], f"{category}_{path[1]}").
SinkFileName(category) ==
    LET path == Split(OutputFileName)
    IN  path[1] \o <<"/">> \o <<category, "_">> \o path[2]

WriteArticlesOpen(c) ==
    /\ PoolAlive
    /\ wpc[c] = "write_articles"
    /\ output_file_name' = [output_file_name EXCEPT ![c] = SinkFileName(c)]
    /\ sink_files' = sink_files \cup {c}
    /\ sink' = [sink EXCEPT ![c] = <<>>]
    /\ story_num' = [story_num EXCEPT ![c] = 0]
    /\ idx' = [idx EXCEPT ![c] = 1]
    /\ wpc' = [wpc EXCEPT ![c] = IF category_urls[c] = <<>> THEN "done" ELSE "url_loop"]
    /\ UNCHANGED <<mainVars, paramVars, unitVars, urlVars, extracted>>

\* Variant: the test made one row late.
StoryQuotaReachedLate(n) == n = articles_per_category + 1

\* write_articles' test after each url.
StoryQuotaReached(n) == n = articles_per_category

\* One iteration of `for url in urls`.
WriteArticle(c) ==
    /\ PoolAlive
    /\ wpc[c] = "url_loop"
    /\ \E outcome \in ArticleOutcomes :
          LET url == category_urls[c][idx[c]]
              n == IF outcome = "body" THEN story_num[c] + 1 ELSE story_num[c]
          IN /\ extracted' = [extracted EXCEPT ![c] =
                                 Append(@, [url |-> url, outcome |-> outcome])]
             /\ sink' = [sink EXCEPT ![c] =
                            IF outcome = "body" THEN Append(@, Row(url, c)) ELSE @]
             /\ story_num' = [story_num EXCEPT ![c] = n]
             /\ IF StoryQuotaReached(n) \/ idx[c] = Len(category_urls[c])
                THEN wpc' = [wpc EXCEPT ![c] = "done"] /\ UNCHANGED idx
                ELSE idx' = [idx EXCEPT ![c] = @ + 1] /\ UNCHANGED wpc
    /\ UNCHANGED <<mainVars, paramVars, unitVars, urlVars, sink_files, output_file_name>>

\* get_article_data raises (a transport failure, a date strptime cannot read);
\* write_articles has no handler, the with block closes the sink, the task
\* ends with the exception.
GetArticleDataRaises(c) ==
    /\ PoolAlive
    /\ wpc[c] = "url_loop"
    /\ extracted' = [extracted EXCEPT ![c] =
                        Append(@, [url |-> category_urls[c][idx[c]], outcome |-> "raise"])]
    /\ wpc' = [wpc EXCEPT ![c] = "failed"]
    /\ UNCHANGED <<mainVars, paramVars, unitVars, urlVars, idx, story_num, sink_files, sink,
                   output_file_name>>

\* ------------------------------------------------------ the join, the merge

\* result = [p.get() for p in processes]: each get blocks until its task has
\* ended and re-raises the task's exception in the main script.
Get ==
    /\ pc = "get"
    /\ LET c == categories[joined + 1]
       IN /\ Finished(c)
          /\ IF wpc[c] = "failed"
             THEN pc' = "task_exception" /\ UNCHANGED joined
             ELSE /\ joined' = joined + 1
                  /\ pc' = IF joined + 1 = Len(categories) THEN "merge" ELSE "get"
    /\ UNCHANGED <<articles_per_category, category_file_names, corpora, wpc>>
    /\ UNCHANGED <<paramVars, unitVars, urlVars, writeVars>>

\* The files glob.glob("*_<name>") can return: every sink file of the
\* directory, in whatever order the directory lists them.
GlobResults == Perms(sink_files)

Merge ==
    /\ pc = "merge"
    /\ \E names \in GlobResults :
          /\ category_file_names' = names
          /\ corpora' = DropDuplicatesKeepLast(Concat(sink, names))
    /\ pc' = "cleanup"
    /\ UNCHANGED <<articles_per_category, joined, wpc>>
    /\ UNCHANGED <<paramVars, unitVars, urlVars, writeVars>>

\* if params.cleanup: os.remove every file the glob named.
Cleanup ==
    /\ pc = "cleanup"
    /\ \E cleanup \in BOOLEAN :
          /\ sink_files' = IF cleanup THEN sink_files \ Range(category_file_names)
                           ELSE sink_files
          /\ sink' = [c \in ALL_CATEGORIES |->
                        IF cleanup /\ c \in Range(category_file_names)
                        THEN <<>> ELSE sink[c]]
    /\ pc' = "done"
    /\ UNCHANGED <<articles_per_category, joined, category_file_names, corpora, wpc>>
    /\ UNCHANGED <<paramVars, unitVars, urlVars, idx, story_num, extracted,
                   output_file_name>>

Next ==
    \/ ComputeQuota
    \/ ApplyAsync
    \/ \E c \in ALL_CATEGORIES : Scrape(c)
    \/ \E c \in ALL_CATEGORIES : GetUrlsFirstPage(c)
    \/ \E c \in ALL_CATEGORIES : GetUrlsNextPage(c)
    \/ \E c \in ALL_CATEGORIES : GetUrlsFetchRaises(c)
    \/ \E c \in ALL_CATEGORIES : WriteArticlesOpen(c)
    \/ \E c \in ALL_CATEGORIES : WriteArticle(c)
    \/ \E c \in ALL_CATEGORIES : GetArticleDataRaises(c)
    \/ Get
    \/ Merge
    \/ Cleanup

Spec == Init /\ [][Next]_vars

\* ------------------------------------------- get_article_data on one page

MaxParagraphs == 2
MaxContainers == 2
MaxDate == 2

\* CONFIG["OLDEST_ARTICLE_DATE"], as a day number.
OLDEST_ARTICLE_DATE == 1

\* Sequences over S of length at most n.
SeqsUpTo(S, n) == UNION {[1..k -> S] : k \in 0..n}

\* The text of a paragraph, as its characters: empty, one blank, one letter.
ParagraphTexts == {<<>>, <<" ">>, <<"x">>}

\* The article pages get_page_soup can return: the time element (absent, or
\* the day of its datetime attribute), the headline text (empty when
\* get_headline finds none), and the story containers, each with the texts
\* of its direct paragraphs.
Soups ==
    [time : {<<>>} \cup {<<d>> : d \in 0..MaxDate},
     headline : {<<>>, <<"h">>},
     story_div : SeqsUpTo(SeqsUpTo(ParagraphTexts, MaxParagraphs), MaxContainers)]

\* Python's None, as a story_text.
None == <<"None">>

RECURSIVE Chain(_)
\* itertools.chain of the containers' paragraph lists.
Chain(lists) == IF lists = <<>> THEN <<>> ELSE Head(lists) \o Chain(Tail(lists))

RECURSIVE Join(_, _)
\* sep.join(texts).
Join(texts, sep) ==
    IF texts = <<>> THEN <<>>
    ELSE IF Len(texts) = 1 THEN Head(texts)
    ELSE Head(texts) \o sep \o Join(Tail(texts), sep)

\* The story_text get_article_data computes: the paragraphs' texts joined by
\* the initial " " when there is a container, and None when the outcome is
\* exactly " ".
StoryText(story_div) ==
    LET story_text == <<" ">>
        joined_text == IF story_div # <<>>
                       THEN Join(Chain(story_div), story_text)
                       ELSE story_text
    IN  IF joined_text = <<" ">> THEN None ELSE joined_text

\* Variant: the cutoff day itself passes the age test.
TooOldStrict(day) == day < OLDEST_ARTICLE_DATE

\* article_date <= OLDEST_ARTICLE_DATE.
TooOld(day) == day <= OLDEST_ARTICLE_DATE

\* The (headline, story_text) of the tuple get_article_data returns.
get_article_data(soup) ==
    IF soup.time # <<>> /\ TooOld(soup.time[1])
    THEN [headline |-> <<>>, text |-> <<>>]
    ELSE [headline |-> soup.headline, text |-> StoryText(soup.story_div)]

\* Python truth of a story_text: neither None nor the empty string.
Truthy(text) == text # None /\ text # <<>>

InitArticle ==
    /\ MainIdle
    /\ TopicsIdle
    /\ ValidIdle
    /\ page_soup \in Soups
    /\ article_data = [headline |-> <<>>, text |-> <<>>]
    /\ article_pc = "get_article_data"
    /\ article_rows = <<>>
    /\ article_story_num = 0

\* headline, paragraphs, url = get_article_data(url)
GetArticleData ==
    /\ article_pc = "get_article_data"
    /\ article_data' = get_article_data(page_soup)
    /\ article_pc' = "if_paragraphs"
    /\ UNCHANGED <<page_soup, article_rows, article_story_num>>
    /\ UNCHANGED <<mainVars, paramVars, urlVars, writeVars, wpc, topicVars, validVars>>

\* if paragraphs: writer.writerow(...); story_num += 1
WriteRow ==
    /\ article_pc = "if_paragraphs"
    /\ IF Truthy(article_data.text)
       THEN /\ article_rows' = Append(article_rows, article_data)
            /\ article_story_num' = article_story_num + 1
       ELSE UNCHANGED <<article_rows, article_story_num>>
    /\ article_pc' = "next_url"
    /\ UNCHANGED <<page_soup, article_data>>
    /\ UNCHANGED <<mainVars, paramVars, urlVars, writeVars, wpc, topicVars, validVars>>

NextArticle == GetArticleData \/ WriteRow

SpecArticle == InitArticle /\ [][NextArticle]_vars

\* --------------------------------------- category resolution for "all"

MaxTopics == 2

\* The site prefix get_topics and get_valid_urls put before an href.
Site == "https://www.bbc.com"

\* CONFIG["CATEGORY_URLS"]: the entry url of each configured category.
ConfiguredUrl(c) ==
    CASE c = MOST_POPULAR -> <<Site, "/pidgin/popular">>
      [] c = "WORLD" -> <<Site, "/pidgin/world">>
      [] c = "SPORT" -> <<Site, "/pidgin/sport">>

\* A category name as a key of the categories dict: its pieces and the "_"
\* between them.
ConfiguredDict == [n \in {<<c>> : c \in ALL_CATEGORIES} |-> ConfiguredUrl(n[1])]

\* The topic elements an article page can carry: the words of the element's
\* text and the href of its link.
TopicTexts == {<<"World">>, <<"Tori">>, <<"Tori", "World">>}
TopicHrefs == {"/pidgin/world", "/pidgin/topics/t1", "/pidgin/topics/t2"}
TopicElements == [text : TopicTexts, href : TopicHrefs]

\* str.upper() on a word.
Upper(w) ==
    CASE w = "World" -> "WORLD"
      [] w = "Tori" -> "TORI"
      [] OTHER -> w

\* "_".join(topic.text.split()).upper().
TopicName(text) == Join([i \in DOMAIN text |-> <<Upper(text[i])>>], <<"_">>)

\* dict[k] = v.
DictSet(d, k, v) == [x \in DOMAIN d \cup {k} |-> IF x = k THEN v ELSE d[x]]

\* dict.update(other).
DictUpdate(d, other) ==
    [x \in DOMAIN d \cup DOMAIN other |-> IF x \in DOMAIN other THEN other[x] ELSE d[x]]

\* The values of a dict.
Values(d) == {d[k] : k \in DOMAIN d}

RECURSIVE AddTopics(_, _, _)
\* get_topics' inner loop over the topic elements of one article page.
AddTopics(found, topic_elements, known_topic_urls) ==
    IF topic_elements = <<>> THEN found
    ELSE LET topic == Head(topic_elements)
             topic_url == <<Site, topic.href>>
             next == IF topic_url \notin known_topic_urls
                     THEN DictSet(found, TopicName(topic.text), topic_url)
                     ELSE found
         IN  AddTopics(next, Tail(topic_elements), known_topic_urls)

InitTopics ==
    /\ MainIdle
    /\ ArticleIdle
    /\ ValidIdle
    /\ topic_pc = "homepage"
    /\ article_urls = <<>>
    /\ topic_idx = 0
    /\ topic_fetched = <<>>
    /\ topics = <<>>
    \* categories: dict = ALL_CATEGORIES or {}
    /\ categories_dict = ConfiguredDict

\* get_topics up to its loop: the homepage is fetched and its article urls
\* listed, in the arbitrary order of list(set(...)).
GetTopicsHomepage ==
    /\ topic_pc = "homepage"
    /\ \E S \in SUBSET Urls : article_urls' \in Perms(S)
    /\ topic_fetched' = Append(topic_fetched, [url |-> "HOMEPAGE", outcome |-> "ok"])
    /\ topics' = <<>>
    /\ topic_idx' = 1
    /\ topic_pc' = "for_url"
    /\ UNCHANGED categories_dict
    /\ UNCHANGED <<mainVars, paramVars, urlVars, writeVars, wpc, articleVars, validVars>>

\* One iteration of get_topics' loop: the article page is fetched and its
\* topic elements not known by url are put in the dict.
GetTopicsArticle ==
    /\ topic_pc = "for_url"
    /\ topic_idx <= Len(article_urls)
    /\ \E topic_elements \in SeqsUpTo(TopicElements, MaxTopics) :
          topics' = AddTopics(topics, topic_elements, Values(categories_dict))
    /\ topic_fetched' = Append(topic_fetched,
                               [url |-> article_urls[topic_idx], outcome |-> "ok"])
    /\ topic_idx' = topic_idx + 1
    /\ UNCHANGED <<topic_pc, article_urls, categories_dict>>
    /\ UNCHANGED <<mainVars, paramVars, urlVars, writeVars, wpc, articleVars, validVars>>

\* requests.get raises inside get_topics: nothing there or in the main script
\* catches it.
GetTopicsFetchRaises ==
    /\ \/ /\ topic_pc = "homepage"
          /\ topic_fetched' = Append(topic_fetched,
                                     [url |-> "HOMEPAGE", outcome |-> "raise"])
       \/ /\ topic_pc = "for_url"
          /\ topic_idx <= Len(article_urls)
          /\ topic_fetched' = Append(topic_fetched,
                                     [url |-> article_urls[topic_idx], outcome |-> "raise"])
    /\ topic_pc' = "exception"
    /\ UNCHANGED <<article_urls, topic_idx, topics, categories_dict>>
    /\ UNCHANGED <<mainVars, paramVars, urlVars, writeVars, wpc, articleVars, validVars>>

\* get_topics returns and the main script merges: categories.update(other_categories).
CategoriesUpdate ==
    /\ topic_pc = "for_url"
    /\ topic_idx > Len(article_urls)
    /\ categories_dict' = DictUpdate(categories_dict, topics)
    /\ topic_pc' = "updated"
    /\ UNCHANGED <<article_urls, topic_idx, topic_fetched, topics>>
    /\ UNCHANGED <<mainVars, paramVars, urlVars, writeVars, wpc, articleVars, validVars>>

NextTopics ==
    \/ GetTopicsHomepage
    \/ GetTopicsArticle
    \/ GetTopicsFetchRaises
    \/ CategoriesUpdate

SpecTopics == InitTopics /\ [][NextTopics]_vars

\* ------------------------------------------------- helpers._is_valid_url_sw

MaxHrefLen == 3

\* The section names _is_valid_url_sw tests after "/swahili/".
DeniedSections ==
    {"topics", "michezo", "bbc_swahili_radio", "dira-tv", "media", "taasisi"}

\* The pieces an href is made of: the site prefix, the language root, the
\* section names the predicate looks for, a letter and a digit.
HrefPieces ==
    {Site, "/swahili/", "articles/", "habari-", "x", "7"} \cup DeniedSections

\* The strings handed to the predicate.
Hrefs == SeqsUpTo(HrefPieces, MaxHrefLen)

\* str.startswith(prefix).
StartsWith(s, prefix) ==
    /\ Len(s) >= Len(prefix)
    /\ SubSeq(s, 1, Len(prefix)) = prefix

RECURSIVE Remove(_, _)
\* str.replace(piece, "").
Remove(s, piece) ==
    IF s = <<>> THEN <<>>
    ELSE IF Head(s) = piece THEN Remove(Tail(s), piece)
    ELSE <<Head(s)>> \o Remove(Tail(s), piece)

\* href[-1].isdigit(): of the pieces only "7" ends in a digit.
LastIsDigit(s) == s[Len(s)] = "7"

\* The href starts with "/swahili/" followed by one of the tested sections.
Denied(s) == \E d \in DeniedSections : StartsWith(s, <<"/swahili/", d>>)

\* What _is_valid_url_sw returns: "True", "False", or "None" when the
\* function ends without reaching a return statement.
_is_valid_url_sw(h) ==
    LET stripped == Remove(h, Site)
    IN  IF StartsWith(stripped, <<"/swahili/", "articles/">>) THEN "True"
        ELSE IF \/ StartsWith(stripped, <<"/swahili/", "habari-">>)
                \/ StartsWith(stripped, <<"/swahili/">>)
        THEN IF ~Denied(stripped) /\ LastIsDigit(stripped) THEN "True" ELSE "None"
        ELSE "False"

InitValid ==
    /\ MainIdle
    /\ ArticleIdle
    /\ TopicsIdle
    /\ href \in Hrefs
    /\ is_valid = "unset"

\* is_valid_url_factory["sw"](href)
IsValidUrl ==
    /\ is_valid = "unset"
    /\ is_valid' = _is_valid_url_sw(href)
    /\ UNCHANGED href
    /\ UNCHANGED <<mainVars, paramVars, urlVars, writeVars, wpc, articleVars, topicVars>>

NextValid == IsValidUrl

SpecValid == InitValid /\ [][NextValid]_vars

\* ------------------------------------------------------------- properties

\* get_urls has returned for c: scrape is at or past its call of write_articles.
Returned(c) == wpc[c] = "write_articles" \/ idx[c] > 0

RECURSIVE BodiesIn(_)
\* The get_article_data calls of the log that returned a body.
BodiesIn(log) ==
    IF log = <<>> THEN 0
    ELSE (IF Head(log).outcome = "body" THEN 1 ELSE 0) + BodiesIn(Tail(log))

\* The links of the listing responses 1..n of c, repetitions counted.
LinksUpTo(c, n) == LinksIn(SubSeq(served[c], 1, n))

\* C1: with a quota k > 0, write_articles writes at most k rows to the
\* category's sink, whatever the articles return, and no article is fetched
\* once the k-th row is written: every get_article_data call but the last
\* was made with fewer than k rows written.
C1_QuotaCapsRows ==
    \A c \in Range(categories) :
        (idx[c] > 0 /\ articles_per_category > 0) =>
            /\ story_num[c] <= articles_per_category
            /\ story_num[c] = BodiesIn(extracted[c])
            /\ c \in sink_files => Len(sink[c]) = story_num[c]
            /\ \A i \in 1..(Len(extracted[c]) - 1) :
                  BodiesIn(SubSeq(extracted[c], 1, i)) < articles_per_category
            /\ story_num[c] = articles_per_category => wpc[c] = "done"

\* C1 witness: a task that stopped at its k-th row with urls left unfetched.
C1_Witness ==
    \E c \in Range(categories) :
        /\ wpc[c] = "done"
        /\ articles_per_category > 0
        /\ story_num[c] = articles_per_category
        /\ Len(sink[c]) = articles_per_category
        /\ Len(extracted[c]) < Len(category_urls[c])

\* C2: the list get_urls returns for a category never holds the same article
\* url twice, whatever the pages and the overlap of their links.
C2_NoRepeatedUrl ==
    \A c \in Range(categories) : Returned(c) => NoDup(category_urls[c])

\* C3: with quota -1 get_urls fetches pages 1, 2, ..., P in that order, each
\* once, where P is the page count page 1 reports; the links of every page
\* fetched are in the accumulated list before the next page is fetched, and
\* the list returned holds every link of every page, empty pages included.
C3_UnboundedFetchesEveryPage ==
    \A c \in Range(categories) :
        (served[c] # <<>> /\ articles_per_category = -1) =>
            /\ Len(served[c]) <= total_page_count[c]
            /\ \A i \in DOMAIN served[c] :
                  /\ served[c][i].page = i
                  /\ served[c][i].links \subseteq Range(category_urls[c])
            /\ Len(category_urls[c]) = LinksUpTo(c, Len(served[c]))
            /\ Returned(c) => Len(served[c]) = total_page_count[c]

\* C3 witness: three pages fetched, the last one without a link.
C3_Witness ==
    \E c \in Range(categories) :
        /\ Returned(c)
        /\ articles_per_category = -1
        /\ total_page_count[c] = 3
        /\ Len(served[c]) = 3
        /\ served[c][3].status = "ok" /\ served[c][3].links = {}
        /\ Cardinality(Range(category_urls[c])) = 2

\* C4: with a quota k > 0, once the accumulated list holds k urls or more
\* get_urls fetches no further listing page, after page 1 as in the loop.
C4_NoFetchPastQuota ==
    [][\A c \in Range(categories) :
          (/\ served[c] # <<>>
           /\ articles_per_category > 0
           /\ Len(category_urls[c]) >= articles_per_category)
          => served'[c] = served[c]]_vars

\* C4 witness: get_urls returned at its quota with pages left unfetched.
C4_Witness ==
    \E c \in Range(categories) :
        /\ Returned(c)
        /\ articles_per_category > 0
        /\ Len(category_urls[c]) >= articles_per_category
        /\ Len(served[c]) = 2
        /\ total_page_count[c] = 3

\* C5, as claimed: with a quota k > 0 get_urls returns k urls or more only in
\* runs where it fetched more than one listing page.
C5_Original ==
    \A c \in Range(categories) :
        (/\ Returned(c)
         /\ articles_per_category > 0
         /\ Len(category_urls[c]) >= articles_per_category)
        => Len(served[c]) > 1

\* C5, amended: with a quota k > 0, when get_urls returns k urls or more, it
\* is the last page it fetched that brought the list to k: the urls of the
\* pages before it number fewer than k. That page can be page 1.
C5_QuotaReachedOnLastPage ==
    \A c \in Range(categories) :
        (/\ Returned(c)
         /\ articles_per_category > 0
         /\ Len(category_urls[c]) >= articles_per_category)
        => LinksUpTo(c, Len(served[c]) - 1) < articles_per_category

\* C5 witness: the quota reached by page 1 alone, of a category of several
\* pages, so that get_urls returns after a single fetch.
C5_Witness ==
    \E c \in Range(categories) :
        /\ Returned(c)
        /\ articles_per_category = 2
        /\ Len(category_urls[c]) >= articles_per_category
        /\ Len(served[c]) = 1
        /\ total_page_count[c] > 1

\* The main script is at or past the merge.
Merging == pc \in {"merge", "cleanup", "done"}

\* The urls of the rows of a sink or of the corpus.
UrlsOf(rows) == {rows[i].url : i \in DOMAIN rows}

\* C6: the merge starts only after every scrape task has ended, and ended
\* without an exception: while a task is queued, discovering urls or writing
\* rows, or when one has failed, the main script is not at the merge and no
\* sink has been read.
C6_MergeAfterAllTasks ==
    /\ Merging => \A c \in Range(categories) : wpc[c] = "done"
    /\ (\E c \in Range(categories) : wpc[c] # "done") =>
          category_file_names = <<>> /\ corpora = <<>>

\* C6 witness: three tasks, all ended, the merge about to read their sinks.
C6_Witness ==
    /\ pc = "merge"
    /\ Len(categories) = 3
    /\ \A c \in Range(categories) : wpc[c] = "done" /\ c \in sink_files

\* C7: after the merge the corpus holds exactly one row for every url of any
\* sink file: no url twice, no url of a sink missing, the rows written by the
\* tasks of this run included.
C7_OneRowPerUrl ==
    pc = "cleanup" =>
        /\ Range(categories) \subseteq sink_files
        /\ UrlsOf(corpora) = UNION {UrlsOf(sink[c]) : c \in sink_files}
        /\ \A i, j \in DOMAIN corpora : corpora[i].url = corpora[j].url => i = j

\* C7 witness: two sinks hold the same url and the corpus two rows.
C7_Witness ==
    /\ pc = "cleanup"
    /\ Len(corpora) = 2
    /\ \E c, d \in Range(categories) :
          c # d /\ UrlsOf(sink[c]) \cap UrlsOf(sink[d]) # {}

\* The sink files of this run that hold url u.
SinksWith(u) == {c \in sink_files : u \in UrlsOf(sink[c])}

\* The position of category c in the sequence s.
IndexIn(s, c) == CHOOSE i \in DOMAIN s : s[i] = c

\* C8, as claimed: when several categories of the run wrote a row for the same
\* url, the corpus keeps the row of the category that comes last in the
\* order of the categories, whatever order glob lists the sink files in.
C8_Original ==
    pc = "cleanup" =>
        \A i \in DOMAIN corpora :
            LET u == corpora[i].url
            IN SinksWith(u) \subseteq Range(categories) =>
                  \A c \in SinksWith(u) :
                      IndexIn(categories, c) <= IndexIn(categories, corpora[i].category)

\* C8, amended: the corpus keeps, for a url several sinks hold, the row of
\* the sink file that glob lists last among them.
C8_LastListedSinkWins ==
    pc = "cleanup" =>
        \A i \in DOMAIN corpora :
            LET u == corpora[i].url
            IN /\ corpora[i].category \in SinksWith(u)
               /\ \A c \in SinksWith(u) :
                     IndexIn(category_file_names, c)
                        <= IndexIn(category_file_names, corpora[i].category)

\* C8 witness: two categories wrote the same url, glob lists the later
\* category's sink first, and the corpus keeps the earlier category's row.
C8_Witness ==
    /\ pc = "cleanup"
    /\ \E i \in DOMAIN corpora : \E c \in SinksWith(corpora[i].url) :
          /\ c # corpora[i].category
          /\ SinksWith(corpora[i].url) \subseteq Range(categories)
          /\ IndexIn(categories, c) > IndexIn(categories, corpora[i].category)
          /\ IndexIn(category_file_names, c)
                < IndexIn(category_file_names, corpora[i].category)

\* C9: under spread allocation with N > 0 the computation yields a quota for
\* every non-empty selection: (N - 10) // (n - 1) when MOST_POPULAR is
\* selected, N // n otherwise.
C9_SpreadYieldsQuota ==
    (pc # "quota" /\ no_of_articles > 0 /\ spread) =>
        /\ pc # "ZeroDivisionError"
        /\ articles_per_category =
              IF MOST_POPULAR \in Range(categories)
              THEN (no_of_articles - 10) \div (Len(categories) - 1)
              ELSE no_of_articles \div Len(categories)

\* C10: under spread allocation with MOST_POPULAR selected, every article of
\* the MOST_POPULAR feed is collected, whatever the quota of the others: when
\* its task is done, get_article_data was called for every url of the feed.
C10_MostPopularCollectedInFull ==
    (/\ spread /\ no_of_articles > 0
     /\ MOST_POPULAR \in Range(categories)
     /\ wpc[MOST_POPULAR] = "done")
    => \A u \in Range(category_urls[MOST_POPULAR]) :
          \E i \in DOMAIN extracted[MOST_POPULAR] :
              extracted[MOST_POPULAR][i].url = u

\* C11: an exception of get_article_data for one article is skipped: the task
\* goes on with the next url instead of ending with the exception.
C11_ArticleFailureSkipped ==
    \A c \in Range(categories) : \A i \in DOMAIN extracted[c] :
        extracted[c][i].outcome = "raise" => wpc[c] \in {"url_loop", "done"}

\* C12: a listing fetch that ends with a non-success HTTP status aborts the
\* category's discovery: get_urls never returns after such a response.
C12_ListingFailureAborts ==
    \A c \in Range(categories) :
        Returned(c) => \A i \in DOMAIN served[c] : served[c][i].status = "ok"

\* The rows written so far by the write_articles calls of the run.
RowsWritten == SumOver([c \in ALL_CATEGORIES |-> story_num[c]], ALL_CATEGORIES)

\* C17: under spread allocation with N > 0 the rows written, summed over the
\* categories, never exceed N, whatever the number of categories and the
\* articles return.
C17_SpreadTotalWithinRequest ==
    (spread /\ no_of_articles > 0) => RowsWritten <= no_of_articles

\* C20: every row of the merged corpus was written by a task of this run: a
\* sink file an earlier run left for a category not selected adds no row.
C20_CorpusFromThisRunOnly ==
    pc = "cleanup" =>
        \A i \in DOMAIN corpora :
            /\ corpora[i].category \in Range(categories)
            /\ \E e \in Range(extracted[corpora[i].category]) :
                  e.url = corpora[i].url /\ e.outcome = "body"

\* C18: the files the write_articles calls of a run open are pairwise
\* distinct: no two tasks, running together or not, open the same path.
C18_SinkPathsDistinct ==
    \A c, d \in Range(categories) :
        (c # d /\ output_file_name[c] # <<>> /\ output_file_name[d] # <<>>) =>
            output_file_name[c] # output_file_name[d]

\* C18 witness: two tasks in their url loops at once, each with its file open.
C18_Witness ==
    \E c, d \in Range(categories) :
        /\ c # d
        /\ wpc[c] = "url_loop" /\ wpc[d] = "url_loop"
        /\ output_file_name[c] = SinkFileName(c)
        /\ output_file_name[d] = SinkFileName(d)

\* A text with at least one character that is not a blank.
NonBlank(text) == \E i \in DOMAIN text : text[i] # " "

\* C14: every row written has a body that is neither empty nor made of
\* blanks only, whatever the containers and paragraphs of the page.
C14_NoBlankRow ==
    \A i \in DOMAIN article_rows : NonBlank(article_rows[i].text)

\* C15: an article dated on or before OLDEST_ARTICLE_DATE, the cutoff day
\* included, writes no row and leaves story_num alone; an article dated after
\* it is written exactly when its story_text is kept.
C15_CutoffInclusive ==
    (article_pc = "next_url" /\ page_soup.time # <<>>) =>
        IF page_soup.time[1] <= OLDEST_ARTICLE_DATE
        THEN article_rows = <<>> /\ article_story_num = 0
        ELSE /\ article_data.text = StoryText(page_soup.story_div)
             /\ (article_story_num = 1) = Truthy(StoryText(page_soup.story_div))
             /\ Len(article_rows) = article_story_num

\* C15 witness: an article dated on the cutoff day, with a body, went through
\* write_articles' loop body and no row was written.
C15_Witness ==
    /\ article_pc = "next_url"
    /\ page_soup.time = <<OLDEST_ARTICLE_DATE>>
    /\ page_soup.story_div = << <<<<"x">>>> >>
    /\ article_rows = <<>>
    /\ article_story_num = 0

\* C13: an exception while fetching one article page inside get_topics does
\* not end the topic discovery: the scan goes on to the next url.
C13_TopicFetchFailureSkipped ==
    \A i \in DOMAIN topic_fetched :
        (topic_fetched[i].url \in Urls /\ topic_fetched[i].outcome = "raise") =>
            topic_pc \in {"for_url", "updated"}

\* C19: after categories.update every configured category is still a key of
\* the dict with its configured entry url, whatever names the topics have.
C19_ConfiguredUrlsKept ==
    topic_pc = "updated" =>
        \A c \in ALL_CATEGORIES :
            /\ <<c>> \in DOMAIN categories_dict
            /\ categories_dict[<<c>>] = ConfiguredUrl(c)

\* C16: _is_valid_url_sw returns a boolean for every string, and False for
\* every href under a denied section, whatever its last character.
C16_DeniedIsFalseAndTotal ==
    is_valid # "unset" =>
        /\ is_valid \in {"True", "False"}
        /\ Denied(Remove(href, Site)) => is_valid = "False"

====
